---- MODULE Spec2Model ----
(***************************************************************************)
(* A model of the GUUK AI backend (src/main.py): the Firestore-backed user *)
(* store, the per-user history sub-collection, the bearer-token identity   *)
(* check and the content-generation endpoints with their provider          *)
(* dispatch.  Each HTTP handler is one atomic action; its inputs are drawn *)
(* from small sets and its response is recorded in resp.                   *)
(*                                                                         *)
(* Strings that the code builds with f-strings and that are later searched *)
(* for a marker are sequences of fragments (<<"[AI error: ", e, "]">>);    *)
(* strings that are only compared for equality (the type label) are TLA+   *)
(* strings built with \o.  A Python dict is a function with a string       *)
(* domain.                                                                 *)
(***************************************************************************)
EXTENDS Integers, Sequences, FiniteSets, TLC

VARIABLES
    db,          \* TRUE iff firestore.client() succeeded at start-up (db is not None)
    apiKey,      \* TRUE iff OPENAI_API_KEY is set (truthy)
    now,         \* the wall clock read by datetime.now(), in ticks
    users,       \* collection "users": document id -> dict
    history,     \* sub-collection users/<u>/history: u -> its documents, in document-id order
    blobs,       \* names of the objects held by the storage bucket
    quizzes,     \* collection "quizzes": the quiz documents, by document id
    quiz_results,\* sub-collection users/<u>/quiz_results: u -> sequence of results
    tokens,      \* subjects of the access tokens issued so far
    resp,        \* the response of the last request
    reqs         \* the requests handled step by step, in order of arrival

vars == <<db, apiKey, now, users, history, blobs, quizzes, quiz_results, tokens, resp, reqs>>

(***************************** bounds and inputs ***************************)
MaxTime == 1     \* the clock stops ticking here
MaxDocs == 2     \* documents written to history, quizzes and quiz_results together

Users == {"alice", "bob"}
Passwords == {"pw1", "pw2"}
Emails == {"None", "a@x.io"}
KnownProviders == {"openai", "gemini", "claude", "manus"}
Providers == KnownProviders \cup {"pika"}
Prompts == {<<"hi">>}
Errors == {"timeout"}
BadToken == "garbage"

(******************************** helpers **********************************)
None == [nil |-> TRUE]

\* dict.update / set(..., merge=True): keys of b override those of a
Merge(a, b) == [k \in DOMAIN a \cup DOMAIN b |-> IF k \in DOMAIN b THEN b[k] ELSE a[k]]

\* Python truthiness of a dict-or-None
Truthy(d) == d # None /\ DOMAIN d # {}

\* datetime.isoformat(): the sub-second part is printed only when it is not
\* zero.  A tick t is second t \div 2, sub-second t % 2.
IsoFormat(t) == IF t % 2 = 0 THEN <<t \div 2>> ELSE <<t \div 2, t % 2>>

\* pwd_context.hash: a salted one-way hash; pwd_context.verify recomputes it
Digest(salt, password) == <<"bcrypt", salt, password>>
get_password_hash(password) == [salt |-> "s1", digest |-> Digest("s1", password)]
verify_password(plain, hashed) == Digest(hashed.salt, plain) = hashed.digest

get_user(username) ==
    IF ~db THEN None
    ELSE IF username \in DOMAIN users THEN users[username] ELSE None

authenticate_user(username, password) ==
    LET user == get_user(username) IN
    IF ~Truthy(user) \/ "password_hash" \notin DOMAIN user THEN None
    ELSE IF ~verify_password(password, user.password_hash) THEN None
    ELSE user

\* jwt.decode + payload.get("sub") + get_user: the user dict, or None for the
\* 401 credentials_exception.  A credential is a token and whether its exp
\* claim has passed.
get_current_user(cred) ==
    IF cred.token \notin tokens \/ cred.expired THEN None
    ELSE get_user(cred.token)

HTTPException(ep, code, detail) == [ep |-> ep, code |-> code, detail |-> detail]
Ok(ep, body) == [ep |-> ep, code |-> 200, body |-> body]

RECURSIVE SumLen(_, _)
SumLen(f, S) == IF S = {} THEN 0
                ELSE LET u == CHOOSE x \in S : TRUE
                     IN Len(f[u]) + SumLen(f, S \ {u})

\* documents written so far (the bound of the model is on this number)
StoreCount == SumLen(history, Users) + Len(quizzes) + SumLen(quiz_results, Users)

InsertAt(s, pos, e) == SubSeq(s, 1, pos - 1) \o <<e>> \o SubSeq(s, pos, Len(s))

\* (a set() on one fixed document instead of add())
HistoryOverwrite(user, entry, pos) == [history EXCEPT ![user] = <<entry>>]

\* collection("history").add(entry): a new document under a random auto-id,
\* which puts it at any position of the collection's document-id order
HistoryAdd(user, entry, pos) ==
    [history EXCEPT ![user] = InsertAt(@, pos, entry)]

Positions(user) == 1 .. (Len(history[user]) + 1)

(********************************* Init ************************************)
Init ==
    /\ db \in BOOLEAN
    /\ apiKey \in BOOLEAN
    /\ now = 0
    /\ users = <<>>
    /\ history = [u \in Users |-> <<>>]
    /\ blobs = {}
    /\ quizzes = <<>>
    /\ quiz_results = [u \in Users |-> <<>>]
    /\ tokens = {}
    /\ resp = [ep |-> "none", code |-> 0]   \* no request handled yet
    /\ reqs = <<>>

Tick ==
    /\ now < MaxTime
    /\ now' = now + 1
    /\ UNCHANGED <<reqs, db, apiKey, users, history, blobs, quizzes, quiz_results, tokens, resp>>

(***************************** auth endpoints ******************************)
\* (a truthiness test that takes a record without a password for no record)
UsernameTakenIfPassword(username) ==
    Truthy(get_user(username)) /\ "password_hash" \in DOMAIN get_user(username)

\* "if get_user(data.username):" of register
UsernameTaken(username) == Truthy(get_user(username))

register(username, password, email) ==
    /\ UNCHANGED <<reqs, db, apiKey, now, history, blobs, quizzes, quiz_results, tokens>>
    /\ IF ~db THEN
          /\ resp' = HTTPException("register", 500, "Database not connected")
          /\ UNCHANGED users
       ELSE IF UsernameTaken(username) THEN
          /\ resp' = HTTPException("register", 400, "Username already exists")
          /\ UNCHANGED users
       ELSE
          LET user_data == [username |-> username,
                            password_hash |-> get_password_hash(password),
                            email |-> email,
                            created_at |-> IsoFormat(now),
                            last_login |-> IsoFormat(now)]
          IN /\ users' = Merge(users, [u \in {username} |-> user_data])
             /\ resp' = Ok("register", [status |-> "registered", user |-> username])

login(username, password) ==
    /\ UNCHANGED <<reqs, db, apiKey, now, history, blobs, quizzes, quiz_results>>
    /\ IF ~db THEN
          /\ resp' = HTTPException("login", 500, "Database not connected")
          /\ UNCHANGED <<users, tokens>>
       ELSE IF authenticate_user(username, password) = None THEN
          /\ resp' = HTTPException("login", 401, "Incorrect username or password")
          /\ UNCHANGED <<users, tokens>>
       ELSE
          /\ tokens' = tokens \cup {username}
          /\ users' = [users EXCEPT ![username] = Merge(@, [last_login |-> IsoFormat(now)])]
          /\ resp' = Ok("login", [access_token |-> username, token_type |-> "bearer",
                                  user |-> username])

login_simple(username) ==
    /\ UNCHANGED <<reqs, db, apiKey, now, history, blobs, quizzes, quiz_results, tokens>>
    /\ IF ~db THEN
          /\ resp' = HTTPException("login_simple", 500, "Database not connected")
          /\ UNCHANGED users
       ELSE
          LET old == IF username \in DOMAIN users THEN users[username] ELSE <<>>
              doc == Merge(old, [last_login |-> IsoFormat(now)])
          IN /\ users' = Merge(users, [u \in {username} |-> doc])
             /\ resp' = Ok("login_simple", [status |-> "ok", user |-> username])

(************************** history endpoints ******************************)
Unauthorized(ep) == HTTPException(ep, 401, "Could not validate credentials")

\* POST /save-content: the entry is the request body plus created_at, added to
\* the history of the authenticated user
save_content(data, cred) ==
    LET current_user == get_current_user(cred) IN
    /\ UNCHANGED <<reqs, db, apiKey, now, users, blobs, quizzes, quiz_results, tokens>>
    /\ IF current_user = None THEN
          /\ resp' = Unauthorized("save_content")
          /\ UNCHANGED history
       ELSE IF ~db THEN
          /\ resp' = HTTPException("save_content", 500, "Database not connected")
          /\ UNCHANGED history
       ELSE IF "username" \notin DOMAIN current_user THEN
          /\ resp' = HTTPException("save_content", 500, "Internal Server Error")
          /\ UNCHANGED history
       ELSE
          LET entry == Merge(data, [created_at |-> IsoFormat(now)]) IN
          /\ StoreCount < MaxDocs
          /\ \E pos \in Positions(current_user.username) :
                history' = HistoryAdd(current_user.username, entry, pos)
          /\ resp' = Ok("save_content", [status |-> "saved", entry |-> entry])

BlobName(user, media_type, file, t) ==
    user \o "/" \o media_type \o "/" \o ToString(t) \o "_" \o file.filename

PublicUrl(filename) == <<"https://storage.googleapis.com/", filename>>

\* the metadata document upload_media saves
MediaData(user, title, media_type, file, prompt, t) ==
    [user |-> user, title |-> title, media_type |-> media_type,
     storage_url |-> PublicUrl(BlobName(user, media_type, file, t)),
     created_at |-> IsoFormat(t), prompt |-> prompt]

\* POST /upload-media: file.content_type must be an image or a video; the blob
\* upload may raise, which the handler turns into a 500
upload_media(user, title, media_type, file, prompt) ==
    /\ UNCHANGED <<reqs, db, apiKey, now, users, quizzes, quiz_results, tokens>>
    /\ IF ~db THEN
          /\ resp' = HTTPException("upload_media", 500, "Database not connected")
          /\ UNCHANGED <<history, blobs>>
       ELSE IF file.content_type \notin {"image/", "video/"} THEN
          /\ resp' = HTTPException("upload_media", 400, "Invalid file type")
          /\ UNCHANGED <<history, blobs>>
       ELSE
          \/ \* blob.upload_from_file or make_public raises
             /\ resp' = HTTPException("upload_media", 500, "Failed to upload file")
             /\ UNCHANGED <<history, blobs>>
          \/ LET filename == BlobName(user, media_type, file, now)
              public_url == PublicUrl(filename)
              media_data == MediaData(user, title, media_type, file, prompt, now)
             IN /\ StoreCount < MaxDocs
                /\ blobs' = blobs \cup {filename}
                /\ \E pos \in Positions(user) : history' = HistoryAdd(user, media_data, pos)
                /\ resp' = Ok("upload_media", [status |-> "uploaded", filename |-> filename,
                                               url |-> public_url])

\* sorted(history_list, key=lambda k: k.get('created_at', ''), reverse=True):
\* the key of an entry, and the order of two keys as Python orders strings
SortKeyNone(k) == <<>>
SortKey(k) == IF "created_at" \in DOMAIN k THEN k.created_at ELSE <<>>

RECURSIVE StrLess(_, _)
StrLess(a, b) ==
    IF b = <<>> THEN FALSE
    ELSE IF a = <<>> THEN TRUE
    ELSE IF Head(a) # Head(b) THEN Head(a) < Head(b)
    ELSE StrLess(Tail(a), Tail(b))

\* a stable sort, descending: reverse=True keeps equal keys in their input order
\* (a listing that keeps one entry per created_at)
RECURSIVE InsertDescUnique(_, _)
InsertDescUnique(e, s) ==
    IF s = <<>> THEN <<e>>
    ELSE IF StrLess(SortKey(Head(s)), SortKey(e)) THEN <<e>> \o s
    ELSE IF SortKey(Head(s)) = SortKey(e) THEN s
    ELSE <<Head(s)>> \o InsertDescUnique(e, Tail(s))

RECURSIVE InsertDesc(_, _)
InsertDesc(e, s) ==
    IF s = <<>> THEN <<e>>
    ELSE IF StrLess(SortKey(Head(s)), SortKey(e)) THEN <<e>> \o s
    ELSE <<Head(s)>> \o InsertDesc(e, Tail(s))

RECURSIVE SortedDesc(_)
SortedDesc(s) ==
    IF s = <<>> THEN <<>>
    ELSE InsertDesc(s[Len(s)], SortedDesc(SubSeq(s, 1, Len(s) - 1)))

\* history_ref.stream() and the list comprehension: the documents in
\* document-id order
Stream(coll) == coll

HistoryList(user) == SortedDesc(Stream(history[user]))

get_history(user) ==
    /\ UNCHANGED <<reqs, db, apiKey, now, users, history, blobs, quizzes, quiz_results, tokens>>
    /\ IF ~db THEN resp' = HTTPException("get_history", 500, "Database not connected")
       ELSE resp' = Ok("get_history", HistoryList(user))

(*************************** provider adapters *****************************)
\* What the OpenAI service does with one call: a value, or an exception
Upstream(values) == [ok : {TRUE}, value : values] \cup [ok : {FALSE}, error : Errors]
\* only the openai adapters call the service
NoCall == [ok |-> TRUE, value |-> <<>>]
UpstreamCall(provider, values) == IF provider = "openai" THEN Upstream(values) ELSE {NoCall}
Completions == {<<"Hello!">>}
ImageUrls == {<<"https://oaidalle.example/img.png">>}

generate_text_gemini(prompt) == <<"[Gemini] ">> \o prompt \o <<" (stub)">>
generate_text_claude(prompt) == <<"[Claude] ">> \o prompt \o <<" (stub)">>
generate_text_manus(prompt) == <<"[Manus] ">> \o prompt \o <<" (stub)">>
generate_image_gemini(prompt) == <<"https://placehold.co/1024x1024?text=Gemini+Image+Stub">>
generate_image_claude(prompt) == <<"https://placehold.co/1024x1024?text=Claude+Image+Stub">>
generate_image_manus(prompt) == <<"https://placehold.co/1024x1024?text=Manus+Image+Stub">>

generate_video_ai(prompt, provider) ==
    IF provider = "openai" THEN <<"https://www.w3schools.com/html/mov_bbb.mp4">>
    ELSE <<"https://placehold.co/640x360?text=", provider, "+Video+Stub">>

generate_cartoon_video(prompt, provider) ==
    IF provider = "openai" THEN <<"https://media.giphy.com/media/ICOgUNjpvO0PC/giphy.gif">>
    ELSE <<"https://placehold.co/400x300?text=", provider, "+Cartoon+Stub">>

generate_voiceover(prompt, provider) ==
    IF provider = "openai" THEN <<"https://www.soundhelix.com/examples/mp3/SoundHelix-Song-1.mp3">>
    ELSE <<"https://placehold.co/300x50?text=", provider, "+Voice+Stub">>

\* the try/except of generate_text_advanced: the output string
TextOutputAdvanced(provider, prompt, up) ==
    IF provider = "openai" THEN
        IF up.ok THEN up.value ELSE <<"[AI error: ", up.error, "]">>
    ELSE IF provider = "gemini" THEN generate_text_gemini(prompt)
    ELSE IF provider = "claude" THEN generate_text_claude(prompt)
    ELSE IF provider = "manus" THEN generate_text_manus(prompt)
    ELSE <<"[Unknown provider: ", provider, "]">>

\* the try/except of generate_image_advanced: the url and the prompt it leaves
ImageOutputAdvanced(provider, prompt, up) ==
    IF provider = "openai" THEN
        IF up.ok THEN [url |-> up.value, prompt |-> prompt]
        ELSE [url |-> <<"https://placehold.co/400x300?text=AI+Error">>,
              prompt |-> <<"[AI error: ", up.error, "] ">> \o prompt]
    ELSE IF provider = "gemini" THEN [url |-> generate_image_gemini(prompt), prompt |-> prompt]
    ELSE IF provider = "claude" THEN [url |-> generate_image_claude(prompt), prompt |-> prompt]
    ELSE IF provider = "manus" THEN [url |-> generate_image_manus(prompt), prompt |-> prompt]
    ELSE [url |-> <<"https://placehold.co/400x300?text=", provider, "+Image+Stub">>,
          prompt |-> prompt]

(************************** generation endpoints ***************************)
\* f"text_{provider}", f"image_generation_{provider}", ...: the type label
TypeLabelBare(prefix, provider) == prefix
TypeLabel(prefix, provider) == prefix \o provider

\* "if not OPENAI_API_KEY and provider == 'openai'" of the advanced endpoints
OpenAIKeyMissingAny(provider) == ~apiKey
OpenAIKeyMissing(provider) == ~apiKey /\ provider = "openai"

\* "if db: ...history.add(entry)" followed by the ok response
PersistAndReturn(ep, user, entry) ==
    /\ IF db THEN /\ StoreCount < MaxDocs
                  /\ \E pos \in Positions(user) : history' = HistoryAdd(user, entry, pos)
       ELSE UNCHANGED history
    /\ resp' = Ok(ep, [status |-> "ok", entry |-> entry])

KeyNotSet(ep) == HTTPException(ep, 500, "OpenAI API key not set")

generate_text(user, prompt) ==
    /\ UNCHANGED <<reqs, db, apiKey, now, users, blobs, quizzes, quiz_results, tokens>>
    /\ IF ~apiKey THEN
          /\ resp' = KeyNotSet("generate_text")
          /\ UNCHANGED history
       ELSE
          \E up \in Upstream(Completions) :
          LET output == IF up.ok THEN up.value ELSE <<"[OpenAI error: ", up.error, "]">>
              entry == [user |-> user, prompt |-> prompt, output |-> output,
                        type |-> "text", created_at |-> IsoFormat(now)]
          IN PersistAndReturn("generate_text", user, entry)

generate_image(user, prompt) ==
    /\ UNCHANGED <<reqs, db, apiKey, now, users, blobs, quizzes, quiz_results, tokens>>
    /\ IF ~apiKey THEN
          /\ resp' = KeyNotSet("generate_image")
          /\ UNCHANGED history
       ELSE
          \E up \in Upstream(ImageUrls) :
          LET image_url == IF up.ok THEN up.value
                           ELSE <<"https://placehold.co/400x300?text=OpenAI+Error">>
              prompt2 == IF up.ok THEN prompt
                         ELSE <<"[OpenAI error: ", up.error, "] ">> \o prompt
              entry == [user |-> user, prompt |-> prompt2, storage_url |-> image_url,
                        media_type |-> "image", type |-> "image_generation",
                        created_at |-> IsoFormat(now)]
          IN PersistAndReturn("generate_image", user, entry)

VideoEntry(user, prompt, t) ==
    [user |-> user, prompt |-> prompt,
     storage_url |-> <<"https://www.w3schools.com/html/mov_bbb.mp4">>,
     media_type |-> "video", type |-> "video_generation",
     created_at |-> IsoFormat(t)]

generate_video(user, prompt) ==
    /\ UNCHANGED <<reqs, db, apiKey, now, users, blobs, quizzes, quiz_results, tokens>>
    /\ PersistAndReturn("generate_video", user, VideoEntry(user, prompt, now))

generate_animation(user, prompt) ==
    /\ UNCHANGED <<reqs, db, apiKey, now, users, blobs, quizzes, quiz_results, tokens>>
    /\ LET entry == [user |-> user, prompt |-> prompt,
                     storage_url |-> <<"https://media.giphy.com/media/ICOgUNjpvO0PC/giphy.gif">>,
                     media_type |-> "animation", type |-> "animation_generation",
                     created_at |-> IsoFormat(now)]
       IN PersistAndReturn("generate_animation", user, entry)

generate_text_advanced(user, prompt, provider, cred) ==
    /\ UNCHANGED <<reqs, db, apiKey, now, users, blobs, quizzes, quiz_results, tokens>>
    /\ IF get_current_user(cred) = None THEN
          /\ resp' = Unauthorized("generate_text_advanced")
          /\ UNCHANGED history
       ELSE IF OpenAIKeyMissing(provider) THEN
          /\ resp' = KeyNotSet("generate_text_advanced")
          /\ UNCHANGED history
       ELSE
          \E up \in UpstreamCall(provider, Completions) :
          LET entry == [user |-> user, prompt |-> prompt,
                        output |-> TextOutputAdvanced(provider, prompt, up),
                        type |-> TypeLabel("text_", provider), provider |-> provider,
                        created_at |-> IsoFormat(now)]
          IN PersistAndReturn("generate_text_advanced", user, entry)

generate_image_advanced(user, prompt, provider, cred) ==
    /\ UNCHANGED <<reqs, db, apiKey, now, users, blobs, quizzes, quiz_results, tokens>>
    /\ IF get_current_user(cred) = None THEN
          /\ resp' = Unauthorized("generate_image_advanced")
          /\ UNCHANGED history
       ELSE IF OpenAIKeyMissing(provider) THEN
          /\ resp' = KeyNotSet("generate_image_advanced")
          /\ UNCHANGED history
       ELSE
          \E up \in UpstreamCall(provider, ImageUrls) :
          LET out == ImageOutputAdvanced(provider, prompt, up)
              entry == [user |-> user, prompt |-> out.prompt, storage_url |-> out.url,
                        media_type |-> "image",
                        type |-> TypeLabel("image_generation_", provider), provider |-> provider,
                        created_at |-> IsoFormat(now)]
          IN PersistAndReturn("generate_image_advanced", user, entry)

generate_video_advanced(user, prompt, provider, cred) ==
    /\ UNCHANGED <<reqs, db, apiKey, now, users, blobs, quizzes, quiz_results, tokens>>
    /\ IF get_current_user(cred) = None THEN
          /\ resp' = Unauthorized("generate_video_advanced")
          /\ UNCHANGED history
       ELSE
          LET entry == [user |-> user, prompt |-> prompt,
                        storage_url |-> generate_video_ai(prompt, provider),
                        media_type |-> "video",
                        type |-> TypeLabel("video_generation_", provider), provider |-> provider,
                        created_at |-> IsoFormat(now)]
          IN PersistAndReturn("generate_video_advanced", user, entry)

generate_cartoon_advanced(user, prompt, provider, cred) ==
    /\ UNCHANGED <<reqs, db, apiKey, now, users, blobs, quizzes, quiz_results, tokens>>
    /\ IF get_current_user(cred) = None THEN
          /\ resp' = Unauthorized("generate_cartoon_advanced")
          /\ UNCHANGED history
       ELSE
          LET entry == [user |-> user, prompt |-> prompt,
                        storage_url |-> generate_cartoon_video(prompt, provider),
                        media_type |-> "animation",
                        type |-> TypeLabel("cartoon_generation_", provider), provider |-> provider,
                        created_at |-> IsoFormat(now)]
          IN PersistAndReturn("generate_cartoon_advanced", user, entry)

generate_voiceover_advanced(user, prompt, provider, cred) ==
    /\ UNCHANGED <<reqs, db, apiKey, now, users, blobs, quizzes, quiz_results, tokens>>
    /\ IF get_current_user(cred) = None THEN
          /\ resp' = Unauthorized("generate_voiceover_advanced")
          /\ UNCHANGED history
       ELSE
          LET entry == [user |-> user, prompt |-> prompt,
                        storage_url |-> generate_voiceover(prompt, provider),
                        media_type |-> "audio",
                        type |-> TypeLabel("voiceover_generation_", provider), provider |-> provider,
                        created_at |-> IsoFormat(now)]
          IN PersistAndReturn("generate_voiceover_advanced", user, entry)

(***************************** quiz endpoints ******************************)
\* dict.pop(key, None)
Pop(d, key) == [k \in DOMAIN d \ {key} |-> d[k]]

create_quiz(quiz, cred) ==
    LET current_user == get_current_user(cred) IN
    /\ UNCHANGED <<reqs, db, apiKey, now, users, history, blobs, quiz_results, tokens>>
    /\ IF current_user = None THEN
          /\ resp' = Unauthorized("create_quiz")
          /\ UNCHANGED quizzes
       ELSE IF ~db THEN
          /\ resp' = HTTPException("create_quiz", 500, "Database not connected")
          /\ UNCHANGED quizzes
       ELSE IF "username" \notin DOMAIN current_user THEN
          /\ resp' = HTTPException("create_quiz", 500, "Internal Server Error")
          /\ UNCHANGED quizzes
       ELSE
          LET quiz_data == Merge(quiz, [created_by |-> current_user.username,
                                        created_at |-> IsoFormat(now)])
          IN /\ StoreCount < MaxDocs
             /\ quizzes' = Append(quizzes, quiz_data)
             /\ resp' = Ok("create_quiz", [status |-> "created", quiz_id |-> Len(quizzes) + 1])

list_quizzes(cred) ==
    /\ UNCHANGED <<reqs, db, apiKey, now, users, history, blobs, quizzes, quiz_results, tokens>>
    /\ IF get_current_user(cred) = None THEN resp' = Unauthorized("list_quizzes")
       ELSE IF ~db THEN resp' = HTTPException("list_quizzes", 500, "Database not connected")
       ELSE resp' = Ok("list_quizzes",
                       [i \in 1 .. Len(quizzes) |-> Pop(Merge(quizzes[i], [id |-> i]), "answer")])

get_quiz(quiz_id, cred) ==
    /\ UNCHANGED <<reqs, db, apiKey, now, users, history, blobs, quizzes, quiz_results, tokens>>
    /\ IF get_current_user(cred) = None THEN resp' = Unauthorized("get_quiz")
       ELSE IF ~db THEN resp' = HTTPException("get_quiz", 500, "Database not connected")
       ELSE IF quiz_id \notin 1 .. Len(quizzes) THEN
          resp' = HTTPException("get_quiz", 404, "Quiz not found")
       ELSE
          LET quiz == quizzes[quiz_id]
              shown == [i \in 1 .. Len(quiz.questions) |-> Pop(quiz.questions[i], "answer")]
          IN resp' = Ok("get_quiz", Merge(quiz, [questions |-> shown, id |-> quiz_id]))

\* (a scoring loop whose bound check skips the last answer)
RECURSIVE ScoreSkipLast(_, _, _)
ScoreSkipLast(questions, answers, idx) ==
    IF idx > Len(questions) THEN 0
    ELSE (IF idx < Len(answers) /\ "answer" \in DOMAIN questions[idx]
             /\ answers[idx] = questions[idx].answer THEN 1 ELSE 0)
         + ScoreSkipLast(questions, answers, idx + 1)

\* the scoring loop of submit_quiz over enumerate(quiz["questions"]), from idx
RECURSIVE Score(_, _, _)
Score(questions, answers, idx) ==
    IF idx > Len(questions) THEN 0
    ELSE (IF idx <= Len(answers) /\ "answer" \in DOMAIN questions[idx]
             /\ answers[idx] = questions[idx].answer THEN 1 ELSE 0)
         + Score(questions, answers, idx + 1)

submit_quiz(sub, cred) ==
    LET current_user == get_current_user(cred) IN
    /\ UNCHANGED <<reqs, db, apiKey, now, users, history, blobs, quizzes, tokens>>
    /\ IF current_user = None THEN
          /\ resp' = Unauthorized("submit_quiz")
          /\ UNCHANGED quiz_results
       ELSE IF ~db THEN
          /\ resp' = HTTPException("submit_quiz", 500, "Database not connected")
          /\ UNCHANGED quiz_results
       ELSE IF sub.quiz_id \notin 1 .. Len(quizzes) THEN
          /\ resp' = HTTPException("submit_quiz", 404, "Quiz not found")
          /\ UNCHANGED quiz_results
       ELSE IF "username" \notin DOMAIN current_user THEN
          /\ resp' = HTTPException("submit_quiz", 500, "Internal Server Error")
          /\ UNCHANGED quiz_results
       ELSE
          LET quiz == quizzes[sub.quiz_id]
              correct == Score(quiz.questions, sub.answers, 1)
              result == [user |-> current_user.username, quiz_id |-> sub.quiz_id,
                         score |-> correct, total |-> Len(quiz.questions),
                         submitted_at |-> IsoFormat(now), answers |-> sub.answers]
          IN /\ StoreCount < MaxDocs
             /\ quiz_results' = [quiz_results EXCEPT ![current_user.username] = Append(@, result)]
             /\ resp' = Ok("submit_quiz", [status |-> "submitted", score |-> correct,
                                           total |-> Len(quiz.questions)])

(***************************** specifications ******************************)
\* Requests are handled one at a time: a handler runs when the previous
\* response has been delivered
NoResponse == [ep |-> "none", code |-> 0]
Idle == resp = NoResponse

Deliver ==
    /\ ~Idle
    /\ resp' = NoResponse
    /\ UNCHANGED <<reqs, db, apiKey, now, users, history, blobs, quizzes, quiz_results, tokens>>

Creds(accounts) == [token : accounts, expired : BOOLEAN]
                       \cup {[token |-> BadToken, expired |-> FALSE]}
Contents(names) == [user : names, prompt : Prompts, output : {<<"saved text">>}, type : {"text"}]
Files == [content_type : {"image/", "text/"}, filename : {"a.png"}]
QuizInputs == {[title |-> "quiz", created_by |-> "teacher", created_at |-> "None",
                questions |-> <<[question |-> "q1", options |-> <<"a", "b", "c">>, answer |-> 0],
                                [question |-> "q2", options |-> <<"a", "b", "c">>, answer |-> 2]>>]}
Submissions == [quiz_id : {1}, answers : {<<0, 1>>}]

AuthNext(accounts, P, E) ==
    \/ \E u \in accounts, p \in P, e \in E : Idle /\ register(u, p, e)
    \/ \E u \in accounts, p \in P : Idle /\ login(u, p)
    \/ \E u \in accounts : Idle /\ login_simple(u)

HistoryNext(accounts, names) ==
    \/ \E d \in Contents(names), c \in Creds(accounts) : Idle /\ save_content(d, c)
    \/ \E u \in names, f \in Files : Idle /\ upload_media(u, "t", "image", f, <<"None">>)
    \/ \E u \in names : Idle /\ get_history(u)

BasicNext(names) ==
    \/ \E u \in names, p \in Prompts : Idle /\ generate_text(u, p)
    \/ \E u \in names, p \in Prompts : Idle /\ generate_image(u, p)
    \/ \E u \in names, p \in Prompts : Idle /\ generate_video(u, p)
    \/ \E u \in names, p \in Prompts : Idle /\ generate_animation(u, p)

AdvancedNext(accounts, names, providers) ==
    \/ \E u \in names, p \in Prompts, pr \in providers, c \in Creds(accounts) :
          Idle /\ generate_text_advanced(u, p, pr, c)
    \/ \E u \in names, p \in Prompts, pr \in providers, c \in Creds(accounts) :
          Idle /\ generate_image_advanced(u, p, pr, c)
    \/ \E u \in names, p \in Prompts, pr \in providers, c \in Creds(accounts) :
          Idle /\ generate_video_advanced(u, p, pr, c)
    \/ \E u \in names, p \in Prompts, pr \in providers, c \in Creds(accounts) :
          Idle /\ generate_cartoon_advanced(u, p, pr, c)
    \/ \E u \in names, p \in Prompts, pr \in providers, c \in Creds(accounts) :
          Idle /\ generate_voiceover_advanced(u, p, pr, c)

QuizNext(accounts) ==
    \/ \E q \in QuizInputs, c \in Creds(accounts) : Idle /\ create_quiz(q, c)
    \/ \E c \in Creds(accounts) : Idle /\ list_quizzes(c)
    \/ \E c \in Creds(accounts) : Idle /\ get_quiz(1, c)
    \/ \E s \in Submissions, c \in Creds(accounts) : Idle /\ submit_quiz(s, c)

\* The whole API, one account, the clock standing still
Next ==
    \/ Deliver
    \/ AuthNext({"alice"}, {"pw1"}, {"None"})
    \/ HistoryNext({"alice"}, Users)
    \/ BasicNext(Users)
    \/ AdvancedNext({"alice"}, Users, {"gemini"})
    \/ QuizNext({"alice"})

Spec == Init /\ [][Next]_vars

\* The generation endpoints with every provider, one user
DispatchNext ==
    \/ Deliver
    \/ AuthNext({"alice"}, {"pw1"}, {"None"})
    \/ BasicNext({"alice"})
    \/ AdvancedNext({"alice"}, {"alice"}, Providers)

SpecDispatch == Init /\ [][DispatchNext]_vars

\* Registration and login, with the clock
AuthClockNext ==
    \/ Tick
    \/ Deliver
    \/ AuthNext(Users, Passwords, Emails)

SpecAuth == Init /\ [][AuthClockNext]_vars

\* The history listing over any stored log: the store may hold documents
\* written with any created_at, an empty one, or none (k.get('created_at', ''))
MaxLen == 3
StoredDocs ==
    [user : {"alice"}, type : {"text"}, created_at : {IsoFormat(t) : t \in 0 .. 2} \cup {<<>>}]
        \cup [user : {"alice"}, type : {"text"}]

RECURSIVE SeqsUpTo(_, _)
SeqsUpTo(S, n) ==
    IF n = 0 THEN {<<>>}
    ELSE LET shorter == SeqsUpTo(S, n - 1)
         IN shorter \cup {Append(q, x) : q \in shorter, x \in S}

SortInit ==
    /\ db = TRUE
    /\ apiKey \in BOOLEAN
    /\ now = 0
    /\ users = <<>>
    /\ \E log \in SeqsUpTo(StoredDocs, MaxLen) :
          history = [u \in Users |-> IF u = "alice" THEN log ELSE <<>>]
    /\ blobs = {}
    /\ quizzes = <<>>
    /\ quiz_results = [u \in Users |-> <<>>]
    /\ tokens = {}
    /\ resp = NoResponse
    /\ reqs = <<>>

SortNext ==
    \/ Deliver
    \/ \E u \in Users : Idle /\ get_history(u)

SpecSort == SortInit /\ [][SortNext]_vars

\* Concurrent requests: each store operation of a handler is a step of its
\* own.  A request is built (its entry stamped with the clock), then added to
\* the log of its target user, then answered.  The account alice is
\* registered and holds a token when the store is connected.
MaxReqs == 2

ConcInit ==
    /\ db \in BOOLEAN
    /\ apiKey = TRUE
    /\ now = 0
    /\ users = IF db THEN [u \in {"alice"} |->
                              [username |-> "alice", password_hash |-> get_password_hash("pw1"),
                               email |-> "None", created_at |-> IsoFormat(0),
                               last_login |-> IsoFormat(0)]]
               ELSE <<>>
    /\ history = [u \in Users |-> <<>>]
    /\ blobs = {}
    /\ quizzes = <<>>
    /\ quiz_results = [u \in Users |-> <<>>]
    /\ tokens = IF db THEN {"alice"} ELSE {}
    /\ resp = NoResponse
    /\ reqs = <<>>

Arrive(ep, target, entry, returned) ==
    /\ Len(reqs) < MaxReqs
    /\ reqs' = Append(reqs, [ep |-> ep, target |-> target, entry |-> entry,
                             returned |-> returned, pc |-> "built"])
    /\ UNCHANGED <<db, apiKey, now, users, history, quizzes, quiz_results, tokens, resp>>

\* generate_video up to the entry (lines 319-327)
VideoBuild(user, prompt) ==
    /\ Arrive("generate_video", user, VideoEntry(user, prompt, now), TRUE)
    /\ UNCHANGED blobs

\* save_content up to the entry (lines 191-199), for a valid credential
SaveBuild(data, cred) ==
    LET current_user == get_current_user(cred) IN
    /\ current_user # None
    /\ "username" \in DOMAIN current_user
    /\ Arrive("save_content", current_user.username,
              Merge(data, [created_at |-> IsoFormat(now)]), TRUE)
    /\ UNCHANGED blobs

\* upload_media up to the metadata (lines 207-232), the blob stored
UploadBuild(user, title, media_type, file, prompt) ==
    /\ db
    /\ file.content_type \in {"image/", "video/"}
    /\ Arrive("upload_media", user, MediaData(user, title, media_type, file, prompt, now), FALSE)
    /\ blobs' = blobs \cup {BlobName(user, media_type, file, now)}

\* user_ref.collection("history").add(entry)
AddStep(i) ==
    /\ reqs[i].pc = "built"
    /\ db
    /\ \E pos \in Positions(reqs[i].target) :
          history' = HistoryAdd(reqs[i].target, reqs[i].entry, pos)
    /\ reqs' = [reqs EXCEPT ![i].pc = "added"]
    /\ UNCHANGED <<db, apiKey, now, users, blobs, quizzes, quiz_results, tokens, resp>>

\* the return statement; generate_video skips the add when db is None
ReturnStep(i) ==
    /\ \/ reqs[i].pc = "added"
       \/ reqs[i].pc = "built" /\ ~db /\ reqs[i].ep = "generate_video"
    /\ reqs' = [reqs EXCEPT ![i].pc = "done"]
    /\ UNCHANGED <<db, apiKey, now, users, history, blobs, quizzes, quiz_results, tokens, resp>>

ConcNext ==
    \/ Tick
    \/ Deliver
    \/ \E u \in Users : Idle /\ get_history(u)
    \/ \E u \in Users, p \in Prompts : VideoBuild(u, p)
    \/ \E d \in Contents({"bob"}) : SaveBuild(d, [token |-> "alice", expired |-> FALSE])
    \/ \E f \in Files : UploadBuild("alice", "t", "image", f, <<"None">>)
    \/ \E i \in 1 .. Len(reqs) : AddStep(i)
    \/ \E i \in 1 .. Len(reqs) : ReturnStep(i)

SpecConc == ConcInit /\ [][ConcNext]_vars

\* Scoring: the store holds a quiz of up to MaxQuestions questions, created by
\* alice, and one submission of up to MaxAnswers answers arrives.
MaxQuestions == 3
MaxAnswers == 3
OptionIndexes == 0 .. 2

Questions == [question : {"q"}, options : {<<"a", "b", "c">>}, answer : OptionIndexes]
StoredQuiz(questions) ==
    Merge([title |-> "quiz", created_by |-> "teacher", created_at |-> "None",
           questions |-> questions],
          [created_by |-> "alice", created_at |-> IsoFormat(0)])
AnswerLists == SeqsUpTo(OptionIndexes, MaxAnswers)
UnknownQuiz == 0

QuizInit ==
    /\ db = TRUE
    /\ apiKey = TRUE
    /\ now = 0
    /\ users = [u \in {"alice"} |->
                   [username |-> "alice", password_hash |-> get_password_hash("pw1"),
                    email |-> "None", created_at |-> IsoFormat(0),
                    last_login |-> IsoFormat(0)]]
    /\ history = [u \in Users |-> <<>>]
    /\ blobs = {}
    /\ \E questions \in SeqsUpTo(Questions, MaxQuestions) :
          quizzes = <<StoredQuiz(questions)>>
    /\ quiz_results = [u \in Users |-> <<>>]
    /\ tokens = {"alice"}
    /\ resp = NoResponse
    /\ reqs = <<>>

QuizScoreNext ==
    \E id \in {1, UnknownQuiz}, answers \in AnswerLists, c \in Creds({"alice"}) :
       Idle /\ submit_quiz([quiz_id |-> id, answers |-> answers], c)

SpecQuiz == QuizInit /\ [][QuizScoreNext]_vars

\* Concurrent /register, /login and /login/simple: each read and each write
\* of the users collection is a step of its own, and a request is answered in
\* the step of its last store operation (nothing but local computation lies
\* between that operation and the return).
Answered(ep, username, password, answer) ==
    [ep |-> ep, username |-> username, password |-> password, email |-> "None",
     pc |-> "done", answer |-> answer]
Pending(ep, username, password, email, pc) ==
    [ep |-> ep, username |-> username, password |-> password, email |-> email,
     pc |-> pc, answer |-> NoResponse]

\* register up to its read: the db check and get_user (lines 147-150)
RegisterCheck(username, password, email) ==
    /\ Len(reqs) < MaxReqs
    /\ reqs' = Append(reqs,
          IF ~db THEN
             Answered("register", username, password,
                      HTTPException("register", 500, "Database not connected"))
          ELSE IF UsernameTaken(username) THEN
             Answered("register", username, password,
                      HTTPException("register", 400, "Username already exists"))
          ELSE Pending("register", username, password, email, "checked"))
    /\ UNCHANGED <<db, apiKey, now, users, history, blobs, quizzes, quiz_results, tokens, resp>>

\* register from the hash to the return: document(username).set(user_data)
RegisterSet(i) ==
    LET r == reqs[i]
        user_data == [username |-> r.username,
                      password_hash |-> get_password_hash(r.password),
                      email |-> r.email,
                      created_at |-> IsoFormat(now),
                      last_login |-> IsoFormat(now)]
    IN /\ r.ep = "register" /\ r.pc = "checked"
       /\ users' = Merge(users, [u \in {r.username} |-> user_data])
       /\ reqs' = [reqs EXCEPT ![i] =
                      Answered("register", r.username, r.password,
                               Ok("register", [status |-> "registered", user |-> r.username]))]
       /\ UNCHANGED <<db, apiKey, now, history, blobs, quizzes, quiz_results, tokens, resp>>

\* login up to its read: the db check and authenticate_user (lines 169-172)
LoginAuthenticate(username, password) ==
    /\ Len(reqs) < MaxReqs
    /\ reqs' = Append(reqs,
          IF ~db THEN
             Answered("login", username, password,
                      HTTPException("login", 500, "Database not connected"))
          ELSE IF authenticate_user(username, password) = None THEN
             Answered("login", username, password,
                      HTTPException("login", 401, "Incorrect username or password"))
          ELSE Pending("login", username, password, "None", "authenticated"))
    /\ UNCHANGED <<db, apiKey, now, users, history, blobs, quizzes, quiz_results, tokens, resp>>

\* login from the token to the return: document(username).update(last_login)
LoginUpdate(i) ==
    LET r == reqs[i] IN
    /\ r.ep = "login" /\ r.pc = "authenticated"
    /\ tokens' = tokens \cup {r.username}
    /\ users' = [users EXCEPT ![r.username] = Merge(@, [last_login |-> IsoFormat(now)])]
    /\ reqs' = [reqs EXCEPT ![i] =
                   Answered("login", r.username, r.password,
                            Ok("login", [access_token |-> r.username, token_type |-> "bearer",
                                         user |-> r.username]))]
    /\ UNCHANGED <<db, apiKey, now, history, blobs, quizzes, quiz_results, resp>>

\* login_simple: one store operation, set(merge=True)
LoginSimpleSet(username) ==
    LET old == IF username \in DOMAIN users THEN users[username] ELSE <<>>
        doc == Merge(old, [last_login |-> IsoFormat(now)])
    IN /\ Len(reqs) < MaxReqs
       /\ users' = IF db THEN Merge(users, [u \in {username} |-> doc]) ELSE users
       /\ reqs' = Append(reqs,
             Answered("login_simple", username, "None",
                      IF db THEN Ok("login_simple", [status |-> "ok", user |-> username])
                      ELSE HTTPException("login_simple", 500, "Database not connected")))
       /\ UNCHANGED <<db, apiKey, now, history, blobs, quizzes, quiz_results, tokens, resp>>

RaceNext ==
    \/ Tick
    \/ \E u \in Users, p \in Passwords : RegisterCheck(u, p, "None")
    \/ \E i \in 1 .. Len(reqs) : RegisterSet(i)
    \/ \E u \in Users, p \in Passwords : LoginAuthenticate(u, p)
    \/ \E i \in 1 .. Len(reqs) : LoginUpdate(i)
    \/ \E u \in Users : LoginSimpleSet(u)

SpecRace == Init /\ [][RaceNext]_vars

(******************* claims on the generation endpoints ********************)
AdvancedEps == {"generate_text_advanced", "generate_image_advanced", "generate_video_advanced",
                "generate_cartoon_advanced", "generate_voiceover_advanced"}
BasicEps == {"generate_text", "generate_image", "generate_video", "generate_animation"}
GenEps == BasicEps \cup AdvancedEps
KeyCheckedEps == {"generate_text", "generate_image", "generate_text_advanced",
                  "generate_image_advanced"}

\* the content kind an advanced endpoint serves
Kind(ep) == CASE ep = "generate_text_advanced" -> "text"
              [] ep = "generate_image_advanced" -> "image"
              [] ep = "generate_video_advanced" -> "video"
              [] ep = "generate_cartoon_advanced" -> "animation"
              [] ep = "generate_voiceover_advanced" -> "voiceover"

\* the label the endpoint puts in front of the provider
Label(ep) == CASE ep = "generate_text_advanced" -> "text"
               [] ep = "generate_image_advanced" -> "image_generation"
               [] ep = "generate_video_advanced" -> "video_generation"
               [] ep = "generate_cartoon_advanced" -> "cartoon_generation"
               [] ep = "generate_voiceover_advanced" -> "voiceover_generation"

ReturnsEntry(r) == r.ep \in GenEps /\ r.code = 200
Payload(entry) == IF "output" \in DOMAIN entry THEN entry.output ELSE entry.storage_url
HasFragment(text, fragments) == \E i \in 1 .. Len(text) : text[i] \in fragments
InHistoryOf(h, entry) == \E i \in 1 .. Len(h[entry.user]) : h[entry.user][i] = entry
InHistory(entry) == InHistoryOf(history, entry)

\* the advanced request that endpoint ep serves
AdvancedRequest(ep, u, p, pr, c) ==
    CASE ep = "generate_text_advanced" -> generate_text_advanced(u, p, pr, c)
      [] ep = "generate_image_advanced" -> generate_image_advanced(u, p, pr, c)
      [] ep = "generate_video_advanced" -> generate_video_advanced(u, p, pr, c)
      [] ep = "generate_cartoon_advanced" -> generate_cartoon_advanced(u, p, pr, c)
      [] ep = "generate_voiceover_advanced" -> generate_voiceover_advanced(u, p, pr, c)

ErrorMarkers == {"[Unknown provider: ", "[AI error: ", "[OpenAI error: ",
                 "https://placehold.co/400x300?text=AI+Error",
                 "https://placehold.co/400x300?text=OpenAI+Error"}

C2_Claimed ==
    (resp.ep \in AdvancedEps /\ resp.code = 200
        /\ resp.body.entry.provider \notin KnownProviders) =>
        /\ HasFragment(Payload(resp.body.entry), ErrorMarkers)
        /\ InHistory(resp.body.entry)

\* the adapter of the request failed: the annotation the handlers write
FailureAnnotated(entry) ==
    \/ "output" \in DOMAIN entry /\ HasFragment(entry.output, {"[AI error: ", "[OpenAI error: "})
    \/ HasFragment(entry.prompt, {"[AI error: ", "[OpenAI error: "})

\* C3 as claimed: when the provider call fails the request still answers ok
\* with an entry that is in the user's history; text carries the error in
\* output, media carry a placeholder url and the error in prompt.
C3_Claimed ==
    (ReturnsEntry(resp) /\ FailureAnnotated(resp.body.entry)) =>
        /\ InHistory(resp.body.entry)
        /\ "storage_url" \in DOMAIN resp.body.entry =>
              /\ resp.body.entry.storage_url \in
                    {<<"https://placehold.co/400x300?text=AI+Error">>,
                     <<"https://placehold.co/400x300?text=OpenAI+Error">>}
              /\ HasFragment(resp.body.entry.prompt, {"[AI error: ", "[OpenAI error: "})

C6_Claimed ==
    (~db /\ resp.ep \in GenEps \cup {"save_content", "get_history"}) => resp.code = 500

(************************ claims on the history log ************************)
\* the created_at of a listed entry as the listing reads it, and the instant
\* it denotes: -1 for a missing or empty one, else the tick that IsoFormat printed
CreatedAt(entry) == IF "created_at" \in DOMAIN entry THEN entry.created_at ELSE <<>>
Instant(text) == IF text = <<>> THEN -1
                 ELSE IF Len(text) = 1 THEN 2 * text[1]
                 ELSE 2 * text[1] + text[2]

IsListing(r) == r.ep = "get_history" /\ r.code = 200

\* C7: a history listing is ordered by created_at descending, entry by entry,
\* and every entry with a missing or empty created_at comes after every entry
\* that has one.
C7_ListingDescending ==
    IsListing(resp) =>
        /\ \A i \in 1 .. (Len(resp.body) - 1) :
              Instant(CreatedAt(resp.body[i])) >= Instant(CreatedAt(resp.body[i + 1]))
        /\ \A i, j \in 1 .. Len(resp.body) :
              (CreatedAt(resp.body[i]) = <<>> /\ CreatedAt(resp.body[j]) # <<>>) => j < i

C7_Witness ==
    /\ IsListing(resp)
    /\ Len(resp.body) = 3
    /\ resp.body # history["alice"]
    /\ "created_at" \notin DOMAIN resp.body[3]
    /\ CreatedAt(resp.body[1]) = <<0, 1>>
    /\ CreatedAt(resp.body[2]) = <<0>>

\* the entries of the requests that target the log of user u, are at one of
\* the steps pcs and answer their caller as in returned
EntriesOf(u, pcs, returned) ==
    LET idx == {i \in 1 .. Len(reqs) : /\ reqs[i].target = u
                                       /\ reqs[i].pc \in pcs
                                       /\ reqs[i].returned \in returned}
    IN [i \in idx |-> reqs[i].entry]

Occurrences(f, e) == Cardinality({i \in DOMAIN f : f[i] = e})
SameEntries(f, g) ==
    \A e \in {f[i] : i \in DOMAIN f} \cup {g[i] : i \in DOMAIN g} :
        Occurrences(f, e) = Occurrences(g, e)

\* C5 as claimed: the listing of U is exactly the entries that completed save
\* and generation requests for U returned to their callers, each once.
C5_Claimed ==
    db => \A u \in Users : SameEntries(HistoryList(u), EntriesOf(u, {"done"}, {TRUE}))

\* C5 as amended: the listing of U is exactly the entries that requests have
\* added to the log of U, each once: every entry a completed save-content or
\* generation request wrote there and returned, and besides them the entries
\* of upload-media (stored, not returned to the caller) and of requests that
\* have added their entry and not answered yet; equal created_at values and
\* concurrent adds drop and duplicate nothing.
\* With the store not connected no log holds anything and no listing is
\* answered.
C5_ListingIsLog ==
    /\ db => \A u \in Users :
                SameEntries(HistoryList(u), EntriesOf(u, {"added", "done"}, BOOLEAN))
    /\ ~db => /\ \A u \in Users : HistoryList(u) = <<>>
              /\ ~IsListing(resp)

C5_Witness ==
    /\ IsListing(resp)
    /\ resp.body = HistoryList("alice")
    /\ Len(resp.body) = 2
    /\ CreatedAt(resp.body[1]) = CreatedAt(resp.body[2])
    /\ resp.body[1].user # resp.body[2].user
    /\ \A i \in 1 .. Len(reqs) : reqs[i].pc = "done" /\ reqs[i].returned

RemoveAt(s, pos) == SubSeq(s, 1, pos - 1) \o SubSeq(s, pos + 1, Len(s))

\* C8: history is append-only: whatever the request, each user's history is
\* left as it is or gains exactly one entry, the entries already there
\* unchanged.
C8_AppendOnly ==
    [][\A u \in Users :
          \/ history'[u] = history[u]
          \/ \E pos \in 1 .. Len(history'[u]) : RemoveAt(history'[u], pos) = history[u]]_vars

C8_Witness ==
    /\ Len(history["alice"]) = 2
    /\ resp.ep = "save_content"
    /\ resp.code = 200

\* C9 as claimed: every entry stored in the history of user U has user = U.
C9_Claimed ==
    \A u \in Users : \A i \in 1 .. Len(history[u]) : history[u][i].user = u

(************************** claims on registration *************************)
\* C10: a /register for a username that has a record is rejected with 400 and
\* the record stays as it is; a /register for a username with no record is
\* answered "registered" and stores a record with that username and the hash
\* of the password.  (With no store the request ends in the 500 of a store
\* that is not connected, and there is no record to speak of.)
C10_Register ==
    [][\A u \in Users, p \in Passwords, e \in Emails :
          (Idle /\ register(u, p, e)) =>
             IF ~db THEN resp'.code = 500 /\ users' = users
             ELSE IF u \in DOMAIN users THEN
                /\ resp'.code = 400
                /\ users' = users
             ELSE
                /\ resp' = Ok("register", [status |-> "registered", user |-> u])
                /\ u \in DOMAIN users'
                /\ users'[u].username = u
                /\ verify_password(p, users'[u].password_hash)
                /\ \A v \in DOMAIN users : v \in DOMAIN users' /\ users'[v] = users[v]]_vars

C10_Witness ==
    /\ resp.ep = "register"
    /\ resp.code = 400
    /\ \E u \in DOMAIN users :
          /\ "password_hash" \in DOMAIN users[u]
          /\ users[u].last_login # users[u].created_at

(************************* claims on quiz scoring **************************)
Min(a, b) == IF a < b THEN a ELSE b
Correct(quiz) == [i \in 1 .. Len(quiz.questions) |-> quiz.questions[i].answer]
\* the positions, counted from 1, below both lengths where the answer given is
\* the correct one
Matches(answers, correct) ==
    {i \in 1 .. Min(Len(answers), Len(correct)) : answers[i] = correct[i]}

\* C11: an authenticated submission of M answers to a stored quiz of N
\* questions is answered "submitted", never with an error, whatever M and N
\* are; the score returned is the number of positions below min(M, N) where
\* the answer equals the question's correct index, the total is N, the answers
\* at positions from N on change nothing, and the result stored for the caller
\* carries the same score and total.
C11_Scoring ==
    [][(Idle /\ resp'.ep = "submit_quiz" /\ resp'.code # 401) =>
          IF resp'.code = 200 THEN
             LET results == quiz_results'["alice"]
                 stored == results[Len(results)]
                 answers == stored.answers
                 correct == Correct(quizzes[stored.quiz_id])
                 N == Len(correct)
             IN /\ Len(results) = Len(quiz_results["alice"]) + 1
                /\ resp'.body.status = "submitted"
                /\ resp'.body.score = Cardinality(Matches(answers, correct))
                /\ resp'.body.total = N
                /\ resp'.body.score
                      = Cardinality(Matches(SubSeq(answers, 1, Min(Len(answers), N)), correct))
                /\ stored.score = resp'.body.score
                /\ stored.total = N
          ELSE
             \A id \in {1, UnknownQuiz}, c \in Creds({"alice"}) :
                (get_current_user(c) # None /\ id \in 1 .. Len(quizzes)) =>
                   \A answers \in AnswerLists :
                      ~submit_quiz([quiz_id |-> id, answers |-> answers], c)]_vars

\* answers [0, 1] against correct [0, 2, 1]: score 1 of 3
C11_Witness ==
    /\ resp.ep = "submit_quiz"
    /\ resp.code = 200
    /\ Correct(quizzes[1]) = <<0, 2, 1>>
    /\ quiz_results["alice"] # <<>>
    /\ quiz_results["alice"][1].answers = <<0, 1>>
    /\ resp.body.score = 1
    /\ resp.body.total = 3

\* an over-long submission: more answers than questions, scored without error
C11_OverLong ==
    /\ resp.ep = "submit_quiz"
    /\ resp.code = 200
    /\ quiz_results["alice"] # <<>>
    /\ Len(quiz_results["alice"][1].answers) > Len(quizzes[1].questions)
    /\ resp.body.score = resp.body.total
    /\ resp.body.total = 2

(********************* claims on concurrent registration *******************)
Registered(rs, u) ==
    {i \in 1 .. Len(rs) : /\ rs[i].ep = "register" /\ rs[i].username = u
                          /\ rs[i].pc = "done" /\ rs[i].answer.code = 200}

\* C12 as claimed: under any interleaving of the steps of /register, /login
\* and /login/simple requests, at most one /register per username is answered
\* "registered", and a password_hash that is stored for a username is never
\* replaced by another.
C12_Claimed ==
    [][/\ \A u \in Users : Cardinality(Registered(reqs', u)) <= 1
       /\ \A u \in DOMAIN users :
             "password_hash" \in DOMAIN users[u] =>
                /\ u \in DOMAIN users'
                /\ "password_hash" \in DOMAIN users'[u]
                /\ users'[u].password_hash = users[u].password_hash]_vars
====
